---- MODULE Spec2Model ----
(***************************************************************************)
(* The mesh cleaning pipeline of grasp_selection/mesh_processor.py         *)
(* (class MeshProcessor): remove_bad_tris, remove_unreferenced_vertices,   *)
(* standardize_pose and clean, acting on the mesh object mesh_.            *)
(*                                                                         *)
(* Coordinates are float64 in the program.  The model keeps them as exact  *)
(* rationals: mesh_.vertices holds integer numerators and mesh_.unit the   *)
(* common positive denominator, in lowest terms.  Triangle indices are     *)
(* Python ints.  normals is None or a list of rows.  mesh_.root is the     *)
(* radicand q of a coordinate numerator / (unit * sqrt(q)), which a        *)
(* rescaling by the diagonal leaves; unit = 0 stands for the coordinates   *)
(* a division by zero leaves: inf, -inf or nan by the numerator's sign.    *)
(*                                                                         *)
(* A call either returns a value or raises: ret holds "None", "True",      *)
(* "False" or the name of the exception that left the call.                *)
(***************************************************************************)
EXTENDS Integers, Sequences, FiniteSets, TLC

VARIABLES
    mesh_,    \* MeshProcessor.mesh_ : [vertices, unit, root, triangles, normals]
    pre,      \* mesh_ as it was when the last call began
    hist,     \* mesh_ as it was when each call so far began
    last,     \* the method called last ("init" before any call)
    arg,      \* the arguments of that call
    ret,      \* what that call returned, or the exception it raised
    log,      \* the stages that call ran, in order, each with its result
    pose,     \* the locals of the standardize_pose that call ran, if any
    ncalls,   \* number of calls made so far
    gce       \* the last call on a Gce object: arguments, requests, outcome

vars == <<mesh_, pre, hist, last, arg, ret, log, pose, ncalls, gce>>

(***************************************************************************)
(* Bounds of the model.                                                    *)
(***************************************************************************)
MaxTris == 2      \* triangles in an initial mesh
MaxCalls == 1     \* calls made on one MeshProcessor
MaxScale == 2     \* the scale handed to rescale_vertices
MaxRuns == 2      \* consecutive runs of remove_bad_tris
MaxPolls == 2     \* polls of one _blocking_call the model follows
MaxDisks == 2     \* entries of additional_disks

(***************************************************************************)
(* Sequences as numpy arrays and Python lists (0-based indices).           *)
(***************************************************************************)
\* a list with its entries evaluated (a tuple, not a rule computing them)
List(s) == s \o <<>>

arange(n) == List([i \in 1..n |-> i - 1])

\* array[idx, :] for a list idx of in-range, non-negative row indices
Take(rows, idx) == List([k \in 1..Len(idx) |-> rows[idx[k] + 1]])

\* numpy and list indexing accept i on an axis of length n iff -n <= i < n
InBounds(i, n) == -n <= i /\ i < n

\* the 0-based position an accepted index addresses (negative ones wrap)
At(i, n) == IF i < 0 THEN i + n ELSE i

NoNormals == [none |-> TRUE, rows |-> <<>>]
SomeNormals(rows) == [none |-> FALSE, rows |-> rows]

(***************************************************************************)
(* remove_bad_tris                                                         *)
(***************************************************************************)
GoodTri_NoDistinct(t, num_v) ==
    /\ t[1] >= 0 /\ t[1] < num_v
    /\ t[2] >= 0 /\ t[2] < num_v
    /\ t[3] >= 0 /\ t[3] < num_v

\* the condition of lines 55-56
GoodTri(t, num_v) ==
    /\ t[1] >= 0 /\ t[1] < num_v
    /\ t[2] >= 0 /\ t[2] < num_v
    /\ t[3] >= 0 /\ t[3] < num_v
    /\ t[1] # t[2] /\ t[1] # t[3] /\ t[2] # t[3]

\* the filter of lines 54-57 losing the first triangle it kept
remove_bad_tris_DropsOne(m) ==
    LET num_v == Len(m.vertices)
        new_tris == SelectSeq(m.triangles, LAMBDA t : GoodTri(t, num_v))
    IN  [mesh |-> [m EXCEPT !.triangles =
                       IF Len(new_tris) = 0 THEN new_tris ELSE Tail(new_tris)],
         ret |-> "mesh"]

remove_bad_tris(m) ==
    LET num_v == Len(m.vertices)
        new_tris == SelectSeq(m.triangles, LAMBDA t : GoodTri(t, num_v))
    IN  [mesh |-> [m EXCEPT !.triangles = new_tris], ret |-> "mesh"]

(***************************************************************************)
(* remove_unreferenced_vertices                                            *)
(***************************************************************************)
\* line 70: the triangle is counted only if no index is too large
Counted(f, num_v) == f[1] < num_v /\ f[2] < num_v /\ f[3] < num_v

\* lines 71-73 raise IndexError when a counted triangle holds an index
\* below -num_v (the assignment is outside the try block)
MarkRaises(tris, num_v) ==
    \E k \in 1..Len(tris) :
        /\ Counted(tris[k], num_v)
        /\ \E j \in 1..3 : ~InBounds(tris[k][j], num_v)

\* lines 68-73: 1 for each referenced vertex (a negative index marks the
\* vertex it wraps to)
reffed_array(tris, num_v) ==
    [i \in 0..(num_v - 1) |->
        IF \E k \in 1..Len(tris) :
              /\ Counted(tris[k], num_v)
              /\ \E j \in 1..3 : /\ InBounds(tris[k][j], num_v)
                                 /\ At(tris[k][j], num_v) = i
        THEN 1 ELSE 0]

\* lines 76-77: np.where(reffed_array == 1)[0]
reffed_v_old_ind(reffed, num_v) ==
    SelectSeq(arange(num_v), LAMBDA i : reffed[i] = 1)

reffed_v_new_ind_NoShift(reffed, num_v) ==
    [i \in 0..(num_v - 1) |-> Cardinality({j \in 0..i : reffed[j] = 1})]

\* line 78: np.cumsum(reffed_array) - 1
reffed_v_new_ind(reffed, num_v) ==
    [i \in 0..(num_v - 1) |-> Cardinality({j \in 0..i : reffed[j] = 1}) - 1]

\* line 84: normals_array[reffed_v_old_ind, :] raises IndexError when the
\* normals array is 1-D (an empty list) or a selected row is missing
NormalsIndexError(rows, old) ==
    \/ Len(rows) = 0
    \/ \E k \in 1..Len(old) : old[k] >= Len(rows)

\* line 91 raises IndexError when an index is outside reffed_v_new_ind
RemapRaises(tris, num_v) ==
    \E k \in 1..Len(tris) : \E j \in 1..3 : ~InBounds(tris[k][j], num_v)

\* lines 89-91
new_triangles(tris, new_ind, num_v) ==
    List([k \in 1..Len(tris) |->
            <<new_ind[At(tris[k][1], num_v)],
              new_ind[At(tris[k][2], num_v)],
              new_ind[At(tris[k][3], num_v)]>>])

remove_unreferenced_vertices(m) ==
    LET num_v == Len(m.vertices)
        tris == m.triangles
        reffed == reffed_array(tris, num_v)
        old == reffed_v_old_ind(reffed, num_v)
        new == reffed_v_new_ind(reffed, num_v)
        m1 == [m EXCEPT !.vertices = Take(m.vertices, old)]
        m2 == IF m.normals.none THEN m1
              ELSE [m1 EXCEPT !.normals = SomeNormals(Take(m.normals.rows, old))]
    IN  IF MarkRaises(tris, num_v)
        THEN [mesh |-> m, ret |-> "IndexError"]
        ELSE IF num_v = 0
        \* vertex_array is 1-D: vertex_array[..., :] raises inside the try
        THEN [mesh |-> m, ret |-> "False"]
        ELSE IF ~m.normals.none /\ NormalsIndexError(m.normals.rows, old)
        \* the vertices are already replaced when the normals fail
        THEN [mesh |-> m1, ret |-> "False"]
        ELSE IF RemapRaises(tris, num_v)
        THEN [mesh |-> m2, ret |-> "IndexError"]
        ELSE [mesh |-> [m2 EXCEPT !.triangles = new_triangles(tris, new, num_v)],
              ret |-> "True"]

(***************************************************************************)
(* Integer helpers, vectors and matrices (a matrix is a list of rows).     *)
(***************************************************************************)
Abs(x) == IF x < 0 THEN -x ELSE x

RECURSIVE GCD(_, _)
GCD(a, b) == IF b = 0 THEN a ELSE GCD(b, a % b)

RECURSIVE GCDAll(_)
GCDAll(S) ==
    IF S = {} THEN 0
    ELSE LET x == CHOOSE x \in S : TRUE IN GCD(x, GCDAll(S \ {x}))

RECURSIVE SumSeq(_)
SumSeq(s) == IF Len(s) = 0 THEN 0 ELSE Head(s) + SumSeq(Tail(s))

Dot(u, v) == SumSeq(List([k \in 1..Len(u) |-> u[k] * v[k]]))

Column(M, j) == List([i \in 1..Len(M) |-> M[i][j]])

Transpose(M, width) == List([j \in 1..width |-> Column(M, j)])

\* M.dot(v) for a matrix M and a vector v
MatVec(M, v) == List([i \in 1..Len(M) |-> Dot(M[i], v)])

Det3(M) ==
      M[1][1] * (M[2][2] * M[3][3] - M[2][3] * M[3][2])
    - M[1][2] * (M[2][1] * M[3][3] - M[2][3] * M[3][1])
    + M[1][3] * (M[2][1] * M[3][2] - M[2][2] * M[3][1])

Identity3 == << <<1, 0, 0>>, <<0, 1, 0>>, <<0, 0, 1>> >>

\* the rational coordinates numerators/unit in lowest terms
Reduce(m) ==
    LET coords == {Abs(m.vertices[i][j]) : i \in 1..Len(m.vertices), j \in 1..3}
        g == GCDAll(coords \cup {m.unit})
    IN  IF g = 0 THEN m
        ELSE
        [m EXCEPT !.vertices = List([i \in 1..Len(m.vertices) |->
                                  <<m.vertices[i][1] \div g,
                                    m.vertices[i][2] \div g,
                                    m.vertices[i][3] \div g>>]),
                  !.unit = m.unit \div g]

(***************************************************************************)
(* Mesh3D.center_vertices_avg and Mesh3D.center_vertices_bb (mesh.py).     *)
(***************************************************************************)
\* subtract the arithmetic mean of the vertices from every vertex
center_vertices_avg(m) ==
    LET n == Len(m.vertices)
        total == <<SumSeq(Column(m.vertices, 1)), SumSeq(Column(m.vertices, 2)),
                   SumSeq(Column(m.vertices, 3))>>
    IN  IF n = 0 \/ m.unit = 0 THEN m
        ELSE Reduce([m EXCEPT
                 !.vertices = List([i \in 1..n |->
                                 <<n * m.vertices[i][1] - total[1],
                                   n * m.vertices[i][2] - total[2],
                                   n * m.vertices[i][3] - total[3]>>]),
                 !.unit = n * m.unit])

MinOf(S) == CHOOSE x \in S : \A y \in S : x <= y
MaxOf(S) == CHOOSE x \in S : \A y \in S : x >= y

\* subtract the midpoint of the axis-aligned bounding box from every vertex
center_vertices_bb(m) ==
    LET n == Len(m.vertices)
        lo == List([j \in 1..3 |-> MinOf({m.vertices[i][j] : i \in 1..n})])
        hi == List([j \in 1..3 |-> MaxOf({m.vertices[i][j] : i \in 1..n})])
    IN  IF n = 0 \/ m.unit = 0 THEN m
        ELSE Reduce([m EXCEPT
                 !.vertices = List([i \in 1..n |->
                                 <<2 * m.vertices[i][1] - (lo[1] + hi[1]),
                                   2 * m.vertices[i][2] - (lo[2] + hi[2]),
                                   2 * m.vertices[i][3] - (lo[3] + hi[3])>>]),
                 !.unit = 2 * m.unit])

(***************************************************************************)
(* standardize_pose                                                        *)
(***************************************************************************)
\* scatter matrix of a centered point cloud (the covariance times n)
Scatter(cent) ==
    List([j \in 1..3 |-> List([k \in 1..3 |-> Dot(Column(cent, j), Column(cent, k))])])

IsDiagonal(M) == \A j \in 1..3 : \A k \in 1..3 : j # k => M[j][k] = 0

Permutations3 == {p \in [1..3 -> 1..3] : \A a \in 1..3 : \A b \in 1..3 : a # b => p[a] # p[b]}

\* lines 107-111: pca.components_ of PCA(n_components = 3) fitted to the
\* centered cloud: orthonormal rows, the principal axes by descending
\* variance.  For a cloud whose scatter matrix is diagonal the axes are the
\* coordinate axes; the sign of each row is the SVD routine's choice, and
\* so is the order of axes of equal variance (of the bases the routine may
\* return for a space of equal variance the model has the axis-aligned
\* ones).  Every cloud of the initial meshes has a diagonal scatter matrix,
\* and the operations of the model keep it so.
PCAComponents(cent) ==
    LET S == Scatter(cent)
    IN  IF ~IsDiagonal(S) THEN {}
        ELSE {List([a \in 1..3 |-> List([k \in 1..3 |-> IF k = p[a] THEN sg[a] ELSE 0])]) :
                 p \in {q \in Permutations3 :
                          /\ S[q[1]][q[1]] >= S[q[2]][q[2]]
                          /\ S[q[2]][q[2]] >= S[q[3]][q[3]]},
                 sg \in [1..3 -> {-1, 1}]}

\* line 112: vertex_array_cent.dot(comp_array.T)
norm_proj(cent, comp) == List([i \in 1..Len(cent) |-> MatVec(comp, cent[i])])

\* line 113
opposite_aligned(proj) ==
    List([a \in 1..3 |-> Cardinality({i \in 1..Len(proj) : proj[i][a] < 0})])

\* line 114
same_aligned(proj) ==
    List([a \in 1..3 |-> Cardinality({i \in 1..Len(proj) : proj[i][a] >= 0})])

pos_oriented_NonStrict(same, opp) ==
    List([a \in 1..3 |-> IF same[a] >= opp[a] THEN 1 ELSE 0])

\* line 115
pos_oriented(same, opp) ==
    List([a \in 1..3 |-> IF same[a] > opp[a] THEN 1 ELSE 0])

\* line 119
target_array == << <<0, 0, 1>>, <<0, 1, 0>>, <<1, 0, 0>> >>

\* line 120: a (3,3) array times a (3,) array multiplies column j of the
\* first by entry j of the second
signed_target(pos, neg) ==
    List([i \in 1..3 |-> List([j \in 1..3 |->
        target_array[i][j] * pos[j] + (-1) * target_array[i][j] * neg[j]])])

\* line 121: np.linalg.solve(A, B), the X with A.dot(X) = B, found column
\* by column (the entries of X are -1, 0 or 1 for the matrices of the model)
Solve(A, B) ==
    LET col(j) == CHOOSE x \in [1..3 -> {-1, 0, 1}] : MatVec(A, x) = Column(B, j)
        cols == <<col(1), col(2), col(3)>>
    IN  List([i \in 1..3 |-> List([j \in 1..3 |-> cols[j][i]])])

\* lines 121-122
Rotation(comp, target) == Transpose(Solve(comp, target), 3)

\* lines 125-126: (R.dot(vertex_array_cent.T)).T
Rotate(R, cent) == List([i \in 1..Len(cent) |-> MatVec(R, cent[i])])

\* lines 127-128 skipped
FinalVertices_NoRecenter(m, rot) == [m EXCEPT !.vertices = rot]

\* lines 127-128: set_vertices(vertex_array_rot), then center_vertices_bb()
FinalVertices(m, rot) == center_vertices_bb([m EXCEPT !.vertices = rot])

\* line 132 raises ValueError unless normals_array.T has three rows
NormalsShapeError(rows) ==
    \/ Len(rows) = 0
    \/ \E i \in 1..Len(rows) : Len(rows[i]) # 3

\* lines 132-133: R.dot(normals_array.T), stored as it is
normals_array_rot(R, rows) ==
    List([a \in 1..3 |-> List([i \in 1..Len(rows) |-> Dot(R[a], rows[i])])])

NoPose == [ran |-> FALSE, solved |-> FALSE, comp |-> <<>>, same |-> <<>>,
           opp |-> <<>>, R |-> <<>>, cent |-> <<>>, rot |-> <<>>, unit |-> 1]

\* standardize_pose with the components the PCA returned
PoseWith(m0, comp) ==
    LET cent == m0.vertices
        proj == norm_proj(cent, comp)
        opp == opposite_aligned(proj)
        same == same_aligned(proj)
        pos == pos_oriented(same, opp)
        neg == List([a \in 1..3 |-> 1 - pos[a]])
        R == Rotation(comp, signed_target(pos, neg))
        rot == Rotate(R, cent)
        m1 == FinalVertices(m0, rot)
        locals == [ran |-> TRUE, solved |-> TRUE, comp |-> comp, same |-> same,
                   opp |-> opp, R |-> R, cent |-> cent, rot |-> rot,
                   unit |-> m0.unit]
    IN  IF m1.normals.none
        THEN [mesh |-> m1, ret |-> "None", pose |-> locals]
        ELSE IF NormalsShapeError(m1.normals.rows)
        THEN [mesh |-> m1, ret |-> "ValueError", pose |-> locals]
        ELSE [mesh |-> [m1 EXCEPT !.normals =
                            SomeNormals(normals_array_rot(R, m1.normals.rows))],
              ret |-> "None", pose |-> locals]

\* the outcomes of standardize_pose: one per choice the PCA can make.
\* With fewer than three vertices components_ is not 3x3 and lines 108-121
\* raise; the centered vertices of line 103 are already stored.  PCA.fit
\* raises on coordinates that are not finite.
standardize_pose(m) ==
    LET m0 == center_vertices_avg(m)
    IN  IF Len(m0.vertices) < 3 \/ m0.unit = 0
        THEN {[mesh |-> m0, ret |-> "ValueError",
               pose |-> [NoPose EXCEPT !.ran = TRUE, !.cent = m0.vertices,
                                        !.unit = m0.unit]]}
        ELSE {PoseWith(m0, comp) : comp \in PCAComponents(m0.vertices)}

(***************************************************************************)
(* clean                                                                   *)
(***************************************************************************)
Stage(name, result) == [stage |-> name, result |-> result]

Raised(result) == result \in {"IndexError", "ValueError"}

\* clean() without its first stage
clean_NoValidation(m) ==
    LET b == remove_unreferenced_vertices(m)
        one == <<Stage("remove_unreferenced_vertices", b.ret)>>
    IN  IF Raised(b.ret)
        THEN {[mesh |-> b.mesh, ret |-> b.ret, log |-> one, pose |-> NoPose]}
        ELSE {[mesh |-> c.mesh, ret |-> c.ret, pose |-> c.pose,
               log |-> Append(one, Stage("standardize_pose", c.ret))] :
                 c \in standardize_pose(b.mesh)}

\* lines 44-48: the three stages in order; a return value is dropped, an
\* exception ends the call
clean(m) ==
    LET a == remove_bad_tris(m)
        b == remove_unreferenced_vertices(a.mesh)
        two == <<Stage("remove_bad_tris", a.ret),
                 Stage("remove_unreferenced_vertices", b.ret)>>
    IN  IF Raised(b.ret)
        THEN {[mesh |-> b.mesh, ret |-> b.ret, log |-> two, pose |-> NoPose]}
        ELSE {[mesh |-> c.mesh, ret |-> c.ret, pose |-> c.pose,
               log |-> Append(two, Stage("standardize_pose", c.ret))] :
                 c \in standardize_pose(b.mesh)}

(***************************************************************************)
(* rescale_vertices                                                        *)
(***************************************************************************)
RescalingTypeMin == 0
RescalingTypeMed == 1
RescalingTypeMax == 2
RescalingTypeAbsolute == 3
RescalingTypeDiag == 4

\* lines 146-148: max - min of the coordinates on each axis (numerators)
vertex_extent(m) ==
    List([j \in 1..3 |-> MaxOf({m.vertices[i][j] : i \in 1..Len(m.vertices)})
                         - MinOf({m.vertices[i][j] : i \in 1..Len(m.vertices)})])

\* the largest k whose square divides q
SquarePart(q) ==
    CHOOSE k \in 1..q : /\ q % (k * k) = 0
                        /\ \A l \in (k + 1)..q : q % (l * l) # 0

\* the scaled vertices, last first
ScaledBy_Reversed(m, scale) ==
    List([i \in 1..Len(m.vertices) |->
            <<scale * m.vertices[Len(m.vertices) + 1 - i][1],
              scale * m.vertices[Len(m.vertices) + 1 - i][2],
              scale * m.vertices[Len(m.vertices) + 1 - i][3]>>])

ScaledBy(m, scale) ==
    List([i \in 1..Len(m.vertices) |->
            <<scale * m.vertices[i][1], scale * m.vertices[i][2],
              scale * m.vertices[i][3]>>])

\* lines 167-169 for a relative_scale of num / (unit * sqrt(root)):
\* scale_factor * vertex_array has the numerators scale * v over num.
\* A float64 division by 0 does not raise: it gives inf, and inf * v is
\* inf, -inf or nan.
Rescaled(m, scale, num) ==
    Reduce([m EXCEPT !.vertices = ScaledBy(m, scale), !.unit = num, !.root = 1])

relative_scale_MinForMax(m, type) ==
    LET extent == vertex_extent(m)
        smallest == MinOf({extent[j] : j \in 1..3})
    IN  IF type \in {RescalingTypeMin, RescalingTypeMax} THEN smallest
        ELSE SumSeq(List([j \in 1..3 |-> extent[j] * extent[j]]))

\* lines 151-164 for the types Min, Max and Diag: the numerator of
\* relative_scale over unit * sqrt(root); for Diag the square of it
relative_scale(m, type) ==
    LET extent == vertex_extent(m)
    IN  IF type = RescalingTypeMin THEN MinOf({extent[j] : j \in 1..3})
        ELSE IF type = RescalingTypeMax THEN MaxOf({extent[j] : j \in 1..3})
        ELSE SumSeq(List([j \in 1..3 |-> extent[j] * extent[j]]))

\* lines 145-169
rescale_vertices(m, scale, type) ==
    IF Len(m.vertices) = 0
    \* np.min of an empty list along axis 0
    THEN {[mesh |-> m, ret |-> "ValueError"]}
    ELSE IF type = RescalingTypeMed
    \* line 155: numpy has no attribute med
    THEN {[mesh |-> m, ret |-> "AttributeError"]}
    ELSE IF type \notin {RescalingTypeMin, RescalingTypeMax,
                         RescalingTypeAbsolute, RescalingTypeDiag}
    \* line 167: relative_scale was never assigned
    THEN {[mesh |-> m, ret |-> "UnboundLocalError"]}
    ELSE IF m.unit = 0
    \* extents of coordinates that are not finite are inf or nan: line 152
    \* or 158 finds no dimension and raises, or the product stays not finite
    THEN {[mesh |-> m, ret |-> r] : r \in {"None", "IndexError"}}
    ELSE IF type = RescalingTypeAbsolute
    THEN {[mesh |-> Reduce([m EXCEPT !.vertices = ScaledBy(m, scale)]),
           ret |-> "None"]}
    ELSE IF type = RescalingTypeDiag
    THEN LET q == relative_scale(m, type)
             k == IF q = 0 THEN 0 ELSE SquarePart(q)
         IN  {[mesh |-> IF q = 0 THEN Rescaled(m, scale, 0)
                        ELSE [Rescaled(m, scale, k) EXCEPT !.root = q \div (k * k)],
               ret |-> "None"]}
    ELSE {[mesh |-> Rescaled(m, scale, relative_scale(m, type)), ret |-> "None"]}

(***************************************************************************)
(* gce.py, class Gce: calls on the Compute Engine API.  A call builds      *)
(* requests, executes them and returns a response or raises.  What the API *)
(* replies is the environment's choice.                                    *)
(***************************************************************************)
\* None, or a Python string
NoneName == [none |-> TRUE, str |-> ""]
Name(s) == [none |-> FALSE, str |-> s]

\* a test for None alone
Falsy_NoneOnly(name) == name.none

\* `not name`
Falsy(name) == name.none \/ name.str = ""

InstanceNames == {NoneName, Name(""), Name("vm")}
DiskNames == {NoneName, Name(""), Name("d1")}
ImageNames == {NoneName, Name(""), Name("img")}
SnapshotNames == {NoneName, Name(""), Name("d1-snapshot")}

\* the disks a Disk of additional_disks can name
Disks == {"d1", "d2"}

\* what request.execute() can do: raise, return an empty (falsy)
\* response, or return an operation resource
Raising == [raises |-> TRUE, empty |-> FALSE, status |-> "", zoned |-> FALSE, error |-> FALSE]
Empty == [raises |-> FALSE, empty |-> TRUE, status |-> "", zoned |-> FALSE, error |-> FALSE]
Operation(status, zoned, error) ==
    [raises |-> FALSE, empty |-> FALSE, status |-> status, zoned |-> zoned, error |-> error]

Replies ==
    {Raising, Empty}
    \cup {Operation(st, z, er) : st \in {"RUNNING", "DONE"}, z \in BOOLEAN, er \in BOOLEAN}

Request(api, target, source) == [api |-> api, target |-> target, source |-> source]

SelfLink(disk) == <<"selfLink", disk>>

\* how a piece of a call ends: the requests it executed, what execute()
\* did for each of them, the response it holds, the exception it raised
\* ("" for none)
Outcome(requests, replies, response, raised) ==
    [requests |-> requests, replies |-> replies, response |-> response, raised |-> raised]

After(first, outcomes) ==
    {[o EXCEPT !.requests = first.requests \o o.requests,
               !.replies = first.replies \o o.replies] : o \in outcomes}

\* lines 552-580: any exception of execute() leaves as ApiError
_execute_request(request) ==
    {Outcome(<<request>>, <<r>>, r, IF r.raises THEN "ApiError" ELSE "") : r \in Replies}

\* one poll, whatever the status polled
_blocking_call_OnePoll(response, polls) ==
    IF response.status = "DONE" THEN {Outcome(<<>>, <<>>, response, "")}
    ELSE {IF o.raised # "" THEN [o EXCEPT !.response = response] ELSE o :
             o \in _execute_request(
                 Request(IF response.zoned THEN "zoneOperations.get"
                         ELSE "globalOperations.get", "operation", <<>>))}

\* lines 520-550, entered with a response that is not empty; polls is the
\* number of polls the model still follows the loop for
RECURSIVE _blocking_call(_, _)
_blocking_call(response, polls) ==
    IF response.status = "DONE" THEN {Outcome(<<>>, <<>>, response, "")}
    ELSE IF polls = 0 THEN {}
    ELSE UNION {
             IF o.raised # "" THEN {[o EXCEPT !.response = response]}
             \* an empty response ends the loop and is returned
             ELSE IF o.response.empty THEN {o}
             ELSE After(o, _blocking_call(o.response, polls - 1)) :
                 o \in _execute_request(
                     Request(IF response.zoned THEN "zoneOperations.get"
                             ELSE "globalOperations.get", "operation", <<>>))}

\* the end of start_instance (lines 200-207) and of the other calls that
\* send one request: execute, wait if asked to, look for 'error'
Submit(request, blocking) ==
    LET waited ==
            UNION {IF o.raised # "" THEN {o}
                   ELSE IF ~o.response.empty /\ blocking
                   THEN After(o, _blocking_call(o.response, MaxPolls))
                   ELSE {o} : o \in _execute_request(request)}
    IN  {IF o.raised = "" /\ ~o.response.empty /\ o.response.error
         THEN [o EXCEPT !.raised = "ApiOperationError"] ELSE o : o \in waited}

Invalid == {Outcome(<<>>, <<>>, Empty, "ValueError")}

\* a disk resource
Resource == Operation("READY", TRUE, FALSE)

\* a lookup that finds every disk
get_disk_AlwaysFinds(disk_name, found) ==
    [request |-> Request("disks.get", disk_name, <<>>),
     reply |-> Resource,
     disk |-> SelfLink(disk_name)]

\* lines 448-469: the disk resource, or None when the request raises
\* ApiError; found holds the disks the API returns a resource for
get_disk(disk_name, found) ==
    [request |-> Request("disks.get", disk_name, <<>>),
     reply |-> IF disk_name \in found THEN Resource ELSE Raising,
     disk |-> IF disk_name \in found THEN SelfLink(disk_name) ELSE <<>>]

\* lines 84-207
start_instance(instance_name, disk_name, image_name, blocking, additional_disks, found) ==
    IF Falsy(instance_name) \/ Falsy(disk_name) \/ Falsy(image_name) THEN Invalid
    ELSE LET n == Len(additional_disks)
             missing == {k \in 1..n : get_disk(additional_disks[k], found).disk = <<>>}
             looked == IF missing = {} THEN n ELSE MinOf(missing)
             lookups ==
                 Outcome(List([k \in 1..looked |->
                                  get_disk(additional_disks[k], found).request]),
                         List([k \in 1..looked |->
                                  get_disk(additional_disks[k], found).reply]),
                         Empty, "")
             sources == List([k \in 1..n |-> get_disk(additional_disks[k], found).disk])
         IN  IF missing # {}
             THEN {[lookups EXCEPT !.raised = "DiskDoesNotExistError"]}
             ELSE After(lookups,
                        Submit(Request("instances.insert", instance_name.str, sources),
                               blocking))

\* lines 209-249; line 240 reads disk_response, a name that is not bound
attach_disk(instance_name, disk_name, found) ==
    IF Falsy(instance_name) \/ Falsy(disk_name) THEN Invalid
    ELSE LET looked == get_disk(disk_name.str, found)
         IN  IF looked.disk = <<>>
             THEN {Outcome(<<looked.request>>, <<looked.reply>>, Empty,
                           "DiskDoesNotExistError")}
             ELSE {Outcome(<<looked.request>>, <<looked.reply>>, Empty, "NameError")}

\* lines 278-312
stop_instance(instance_name, blocking) ==
    IF Falsy(instance_name) THEN Invalid
    ELSE Submit(Request("instances.delete", instance_name.str, <<>>), blocking)

\* lines 314-371
create_disk(disk_name, blocking) ==
    IF Falsy(disk_name) THEN Invalid
    ELSE Submit(Request("disks.insert", disk_name.str, <<>>), blocking)

\* lines 373-413; line 412 stores a key in the response: a response of
\* None raises TypeError, an empty dictionary takes the key
snapshot_disk(disk_name, blocking) ==
    IF Falsy(disk_name) THEN Invalid
    ELSE UNION {IF o.raised = "" /\ o.response.empty
                THEN {o, [o EXCEPT !.raised = "TypeError"]} ELSE {o} :
                   o \in Submit(Request("disks.createSnapshot", disk_name.str, <<>>),
                                blocking)}

\* lines 415-446
delete_snapshot(snapshot_name, blocking) ==
    IF Falsy(snapshot_name) THEN Invalid
    ELSE Submit(Request("snapshots.delete", snapshot_name.str, <<>>), blocking)

\* lines 471-503
delete_disk(disk_name, blocking) ==
    IF Falsy(disk_name) THEN Invalid
    ELSE Submit(Request("disks.delete", disk_name.str, <<>>), blocking)

\* no call made yet
NoGce == [method |-> "init", instance_name |-> NoneName, disk_name |-> NoneName,
          image_name |-> NoneName, snapshot_name |-> NoneName, blocking |-> FALSE,
          additional_disks |-> <<>>, found |-> {},
          requests |-> <<>>, replies |-> <<>>, response |-> Empty, raised |-> ""]

(***************************************************************************)
(* Initial meshes: what a loader hands to MeshProcessor(mesh, filename).   *)
(***************************************************************************)
\* a planar cloud all of whose sub-clouds have the coordinate axes as
\* principal axes
Rhombus == << <<-2, 0, 0>>, <<2, 0, 0>>, <<0, 1, 0>>, <<0, -1, 0>> >>

NormalOf(i) == <<i, 0, 1>>

Triples(n) == (-1..n) \X (-1..n) \X (-1..n)

Ascending(n) == {t \in Triples(n) : t[1] <= t[2] /\ t[2] <= t[3]}

\* a triangle on three different vertices out of n
Proper(t, n) ==
    /\ \A j \in 1..3 : t[j] \in 0..(n - 1)
    /\ Cardinality({t[1], t[2], t[3]}) = 3

\* any single triangle; longer lists hold triangles with ascending indices,
\* at least one of them proper
TriangleLists(n) ==
    {<<>>} \cup {<<t>> : t \in Triples(n)}
           \cup UNION {{l \in [1..k -> Ascending(n)] :
                          \E i \in 1..k : Proper(l[i], n)} : k \in 2..MaxTris}

\* no normals, one per vertex, or one too few
NormalsChoices(n) ==
    {NoNormals, SomeNormals(List([i \in 1..n |-> NormalOf(i)]))}
    \cup (IF n >= 1 THEN {SomeNormals(List([i \in 1..(n - 1) |-> NormalOf(i)]))} ELSE {})

\* meshes with arbitrary triangle lists over a prefix of Rhombus
InitMesh ==
    \E n \in 0..Len(Rhombus) :
    \E tris \in TriangleLists(n) :
    \E nrm \in NormalsChoices(n) :
        mesh_ = [vertices |-> SubSeq(Rhombus, 1, n), unit |-> 1, root |-> 1,
                 triangles |-> tris, normals |-> nrm]

\* point clouds whose scatter matrix is diagonal:
\* no two axes alike, no vertex on a principal plane
Skew == << <<-3, 1, 3>>, <<-3, -1, -3>>, <<2, -2, 2>>, <<2, 1, 1>>, <<2, 1, -3>> >>
\* most vertices between the centroid and the far end of the longest axis
Heavy == << <<-3, 1, 0>>, <<-3, -1, 0>>, <<0, 0, 2>>, <<0, 0, -2>>, <<6, 0, 0>> >>
\* as many vertices on either side of every principal plane
Balanced == << <<3, 2, 1>>, <<3, -2, -1>>, <<-3, 2, -1>>, <<-3, -2, 1>> >>
\* as many vertices on either side of the third principal plane only
Tied == << <<-2, -4, 0>>, <<-2, 4, 0>>, <<2, 0, -3>>, <<2, 0, 3>> >>
\* all vertices on one line
Collinear == << <<-3, 0, 0>>, <<1, 0, 0>>, <<2, 0, 0>> >>
\* all vertices in one plane
Kite == << <<-2, 0, 0>>, <<2, 0, 0>>, <<0, 1, 0>>, <<0, -3, 0>> >>
\* fewer than three vertices
Pair == << <<1, 0, 0>>, <<0, 2, 0>> >>

BaseClouds == {Skew, Heavy, Balanced, Tied, Collinear, Kite, Pair}

\* the 48 ways to permute and flip the coordinate axes
AxisMaps ==
    {List([a \in 1..3 |-> List([k \in 1..3 |-> IF k = p[a] THEN sg[a] ELSE 0])]) :
        p \in Permutations3, sg \in [1..3 -> {-1, 1}]}

Clouds == {Rotate(g, c) : g \in AxisMaps, c \in BaseClouds}

\* a strip of triangles through all the vertices
Strip(n) == List([k \in 1..(IF n >= 3 THEN n - 2 ELSE 0) |-> <<k - 1, k, k + 1>>])

\* meshes over every cloud, in every axis-aligned orientation
InitCloud ==
    \E c \in Clouds :
    \E nrm \in {NoNormals, SomeNormals(List([i \in 1..Len(c) |-> NormalOf(i)]))} :
        mesh_ = [vertices |-> c, unit |-> 1, root |-> 1,
                 triangles |-> Strip(Len(c)), normals |-> nrm]

\* a call without arguments
NoArg == [scale |-> 0, given |-> FALSE, type |-> 0]

\* nothing called yet
Idle ==
    /\ pre = mesh_
    /\ hist = <<>>
    /\ last = "init"
    /\ arg = NoArg
    /\ ret = "None"
    /\ log = <<>>
    /\ pose = NoPose
    /\ ncalls = 0
    /\ gce = NoGce

Init ==
    /\ (InitMesh \/ InitCloud)
    /\ Idle

(***************************************************************************)
(* Calls.                                                                  *)
(***************************************************************************)
CanCall == ncalls < MaxCalls

Call(name, args, out, stages, locals) ==
    /\ pre' = mesh_
    /\ hist' = Append(hist, mesh_)
    /\ mesh_' = out.mesh
    /\ last' = name
    /\ arg' = args
    /\ ret' = out.ret
    /\ log' = stages
    /\ pose' = locals
    /\ ncalls' = ncalls + 1
    /\ UNCHANGED gce

RemoveBadTris ==
    /\ CanCall
    /\ LET out == remove_bad_tris(mesh_)
       IN  Call("remove_bad_tris", NoArg, out, <<Stage("remove_bad_tris", out.ret)>>, NoPose)

RemoveUnreferencedVertices ==
    /\ CanCall
    /\ LET out == remove_unreferenced_vertices(mesh_)
       IN  Call("remove_unreferenced_vertices", NoArg, out,
                <<Stage("remove_unreferenced_vertices", out.ret)>>, NoPose)

StandardizePose ==
    /\ CanCall
    /\ \E out \in standardize_pose(mesh_) :
           Call("standardize_pose", NoArg, out, <<Stage("standardize_pose", out.ret)>>, out.pose)

Clean ==
    /\ CanCall
    /\ \E out \in clean(mesh_) :
           Call("clean", NoArg, out, out.log, out.pose)

\* rescale_vertices(scale) and rescale_vertices(scale, rescaling_type)
RescaleVertices ==
    /\ CanCall
    /\ \E scale \in 1..MaxScale :
       \E given \in BOOLEAN :
       \E type \in (IF given THEN 0..(RescalingTypeDiag + 1) ELSE {RescalingTypeMin}) :
       \E out \in rescale_vertices(mesh_, scale, type) :
           Call("rescale_vertices", [scale |-> scale, given |-> given, type |-> type],
                out, <<Stage("rescale_vertices", out.ret)>>, NoPose)

Next ==
    \/ RescaleVertices
    \/ RemoveBadTris
    \/ RemoveUnreferencedVertices
    \/ StandardizePose
    \/ Clean

Spec == Init /\ [][Next]_vars

(***************************************************************************)
(* remove_bad_tris run again and again on the same MeshProcessor.          *)
(***************************************************************************)
RemoveBadTrisAgain ==
    /\ ncalls < MaxRuns
    /\ LET out == remove_bad_tris(mesh_)
       IN  Call("remove_bad_tris", NoArg, out,
                <<Stage("remove_bad_tris", out.ret)>>, NoPose)

SpecRevalidate == Init /\ [][RemoveBadTrisAgain]_vars

(***************************************************************************)
(* Calls on a Gce object.                                                  *)
(***************************************************************************)
GceInit ==
    /\ mesh_ = [vertices |-> <<>>, unit |-> 1, root |-> 1, triangles |-> <<>>,
                normals |-> NoNormals]
    /\ Idle

GceCall(method, args, out) ==
    /\ gce' = [args EXCEPT !.method = method, !.requests = out.requests,
                           !.replies = out.replies, !.response = out.response,
                           !.raised = out.raised]
    /\ UNCHANGED <<mesh_, pre, hist, last, arg, ret, log, pose, ncalls>>

DiskLists == UNION {[1..k -> Disks] : k \in 0..MaxDisks}

\* a Gce object keeps nothing from one call to the next: a behaviour
\* follows one call
Fresh == gce.method = "init"

StartInstance ==
    /\ Fresh
    /\ \E i \in InstanceNames, d \in DiskNames, im \in ImageNames, b \in BOOLEAN :
       \E ad \in DiskLists, found \in SUBSET Disks :
       \E out \in start_instance(i, d, im, b, ad, found) :
           GceCall("start_instance",
                   [NoGce EXCEPT !.instance_name = i, !.disk_name = d, !.image_name = im,
                                 !.blocking = b, !.additional_disks = ad, !.found = found],
                   out)

AttachDisk ==
    /\ Fresh
    /\ \E i \in InstanceNames, d \in DiskNames, found \in SUBSET Disks :
       \E out \in attach_disk(i, d, found) :
           GceCall("attach_disk",
                   [NoGce EXCEPT !.instance_name = i, !.disk_name = d, !.found = found],
                   out)

StopInstance ==
    /\ Fresh
    /\ \E i \in InstanceNames, b \in BOOLEAN :
       \E out \in stop_instance(i, b) :
           GceCall("stop_instance", [NoGce EXCEPT !.instance_name = i, !.blocking = b], out)

CreateDisk ==
    /\ Fresh
    /\ \E d \in DiskNames, b \in BOOLEAN :
       \E out \in create_disk(d, b) :
           GceCall("create_disk", [NoGce EXCEPT !.disk_name = d, !.blocking = b], out)

SnapshotDisk ==
    /\ Fresh
    /\ \E d \in DiskNames, b \in BOOLEAN :
       \E out \in snapshot_disk(d, b) :
           GceCall("snapshot_disk", [NoGce EXCEPT !.disk_name = d, !.blocking = b], out)

DeleteSnapshot ==
    /\ Fresh
    /\ \E sn \in SnapshotNames, b \in BOOLEAN :
       \E out \in delete_snapshot(sn, b) :
           GceCall("delete_snapshot", [NoGce EXCEPT !.snapshot_name = sn, !.blocking = b], out)

DeleteDisk ==
    /\ Fresh
    /\ \E d \in DiskNames, b \in BOOLEAN :
       \E out \in delete_disk(d, b) :
           GceCall("delete_disk", [NoGce EXCEPT !.disk_name = d, !.blocking = b], out)

GceNext ==
    \/ StartInstance
    \/ AttachDisk
    \/ StopInstance
    \/ CreateDisk
    \/ SnapshotDisk
    \/ DeleteSnapshot
    \/ DeleteDisk

SpecGce == GceInit /\ [][GceNext]_vars

(***************************************************************************)
(* Properties.  pre is the mesh before the last call, mesh_ the mesh after. *)
(***************************************************************************)
InRange(t, n) == \A j \in 1..3 : t[j] \in 0..(n - 1)

IndicesInRange(m) ==
    \A k \in 1..Len(m.triangles) : InRange(m.triangles[k], Len(m.vertices))

\* out holds the entries of in at the positions in keep, in their order
IsSelection(out, in, keep) ==
    /\ Len(out) = Cardinality(keep)
    /\ \A k \in keep : out[Cardinality({j \in keep : j <= k})] = in[k]

\* C1: remove_bad_tris leaves exactly the triangles whose three indices are
\* in [0, N) and pairwise different, in their input order, and leaves the
\* vertices and normals alone; a list of valid triangles is left as it is.
C1_RemoveBadTrisFilter ==
    last = "remove_bad_tris" =>
        LET n == Len(pre.vertices)
            keep == {k \in 1..Len(pre.triangles) : Proper(pre.triangles[k], n)}
        IN  /\ ret = "mesh"
            /\ IsSelection(mesh_.triangles, pre.triangles, keep)
            /\ \A k \in 1..Len(mesh_.triangles) : Proper(mesh_.triangles[k], n)
            /\ (keep = 1..Len(pre.triangles) => mesh_.triangles = pre.triangles)
            /\ mesh_.vertices = pre.vertices
            /\ mesh_.normals = pre.normals

\* a triangle with a repeated index went, the proper one after it stayed
C1_Witness ==
    /\ last = "remove_bad_tris"
    /\ Len(pre.triangles) = 2
    /\ InRange(pre.triangles[1], Len(pre.vertices))
    /\ ~Proper(pre.triangles[1], Len(pre.vertices))
    /\ mesh_.triangles = <<pre.triangles[2]>>

NormalsFit(m) == m.normals.none \/ Len(m.normals.rows) = Len(m.vertices)

Referenced(m) ==
    {i \in 0..(Len(m.vertices) - 1) :
        \E k \in 1..Len(m.triangles) : \E j \in 1..3 : m.triangles[k][j] = i}

\* C2: on a mesh whose indices are all in [0, N) (and whose normals, if
\* present, are one per vertex, or else the call returned True), after
\* remove_unreferenced_vertices every index is in [0, N'), the vertices are
\* the referenced ones in their old order, and every triangle corner points
\* at the new position of the vertex it pointed at.
C2_Compaction ==
    (/\ last = "remove_unreferenced_vertices"
     /\ IndicesInRange(pre)
     /\ (NormalsFit(pre) \/ ret = "True")) =>
        LET ref == Referenced(pre)
        IN  /\ IndicesInRange(mesh_)
            /\ IsSelection(mesh_.vertices, pre.vertices, {i + 1 : i \in ref})
            /\ Len(mesh_.triangles) = Len(pre.triangles)
            /\ \A k \in 1..Len(pre.triangles) : \A j \in 1..3 :
                   /\ mesh_.triangles[k][j] =
                          Cardinality({r \in ref : r < pre.triangles[k][j]})
                   /\ mesh_.vertices[mesh_.triangles[k][j] + 1] =
                          pre.vertices[pre.triangles[k][j] + 1]

\* a vertex in the middle was dropped and an index moved down
C2_Witness ==
    /\ last = "remove_unreferenced_vertices"
    /\ ret = "True"
    /\ IndicesInRange(pre)
    /\ Len(mesh_.vertices) < Len(pre.vertices)
    /\ \E k \in 1..Len(pre.triangles) : \E j \in 1..3 :
           mesh_.triangles[k][j] < pre.triangles[k][j]

\* C3: on a mesh with an index outside [0, N),
\* remove_unreferenced_vertices reports a failure and leaves the mesh as
\* it was.
C3_OutOfRangeFails ==
    (/\ last = "remove_unreferenced_vertices"
     /\ ~IndicesInRange(pre)) =>
        /\ ret # "True"
        /\ mesh_ = pre

\* C3, first half only: a failure is reported
C3_OutOfRangeReported ==
    (/\ last = "remove_unreferenced_vertices"
     /\ ~IndicesInRange(pre)) => ret # "True"

\* C3, second half only: a reported failure leaves the mesh as it was
C3_FailureLeavesMesh ==
    (/\ last = "remove_unreferenced_vertices"
     /\ ~IndicesInRange(pre)
     /\ ret # "True") => mesh_ = pre

Failed(result) == result \in {"False", "IndexError", "ValueError"}

\* C4: in clean() a stage that fails is the last stage run, and clean()
\* does not return normally after it.
C4_FailFast ==
    last = "clean" =>
        \A k \in 1..Len(log) :
            Failed(log[k].result) => (k = Len(log) /\ ret # "None")

\* C4, for the stage the claim singles out: after
\* remove_unreferenced_vertices reports failure standardize_pose does not run
C4_PoseNotRunAfterFailure ==
    (/\ last = "clean"
     /\ Len(log) >= 2
     /\ log[2].result = "False") => ~pose.ran

NormalsAligned(m) ==
    /\ ~m.normals.none
    /\ Len(m.normals.rows) = Len(m.vertices)
    /\ \A i \in 1..Len(m.normals.rows) : Len(m.normals.rows[i]) = 3

\* C5: on a mesh with one normal per vertex, after each of remove_bad_tris,
\* remove_unreferenced_vertices and standardize_pose completes successfully
\* the normals are still one 3-vector per vertex.
C5_NormalsStayAligned ==
    (/\ last \in {"remove_bad_tris", "remove_unreferenced_vertices",
                  "standardize_pose"}
     /\ NormalsAligned(pre)
     /\ ~Failed(ret)) => NormalsAligned(mesh_)

\* C5 for the two stages before standardize_pose
C5_AlignedBeforePose ==
    (/\ last \in {"remove_bad_tris", "remove_unreferenced_vertices"}
     /\ NormalsAligned(pre)
     /\ ~Failed(ret)) => NormalsAligned(mesh_)

StageOrder == <<"remove_bad_tris", "remove_unreferenced_vertices", "standardize_pose">>

\* every stage of the call ran and reported success
CleanSucceeded ==
    /\ last = "clean"
    /\ ret = "None"
    /\ Len(log) = 3
    /\ \A k \in 1..3 : ~Failed(log[k].result)

\* C6: clean() runs remove_bad_tris, remove_unreferenced_vertices and
\* standardize_pose in this order, and after a clean() all of whose stages
\* succeeded every index is in [0, N), no triangle repeats an index and
\* every vertex is referenced.
C6_CleanPostconditions ==
    last = "clean" =>
        /\ Len(log) \in 2..3
        /\ \A k \in 1..Len(log) : log[k].stage = StageOrder[k]
        /\ CleanSucceeded =>
               /\ \A k \in 1..Len(mesh_.triangles) :
                      Proper(mesh_.triangles[k], Len(mesh_.vertices))
               /\ Referenced(mesh_) = 0..(Len(mesh_.vertices) - 1)

\* a clean() that dropped a triangle and a vertex and went through
C6_Witness ==
    /\ CleanSucceeded
    /\ Len(mesh_.triangles) < Len(pre.triangles)
    /\ Len(mesh_.triangles) >= 1
    /\ Len(mesh_.vertices) < Len(pre.vertices)

MatMul3(A, B) == [i \in 1..3 |-> [j \in 1..3 |-> Dot(A[i], Column(B, j))]]

\* C7: whenever standardize_pose returns, R is orthogonal with
\* determinant +1.
C7_ProperRotation ==
    (/\ last = "standardize_pose"
     /\ ret = "None") =>
        /\ \A i, j \in 1..3 :
               MatMul3(Transpose(pose.R, 3), pose.R)[i][j] = Identity3[i][j]
        /\ Det3(pose.R) = 1

CountAtLeastZero(vs, a) == Cardinality({i \in 1..Len(vs) : vs[i][a] >= 0})
CountBelowZero(vs, a) == Cardinality({i \in 1..Len(vs) : vs[i][a] < 0})

\* C8: after standardize_pose, on every axis of the final frame at least as
\* many vertices have a coordinate >= 0 as have a coordinate < 0.
C8_MajorityNonNegative ==
    (/\ last = "standardize_pose"
     /\ ret = "None") =>
        \A a \in 1..3 :
            CountAtLeastZero(mesh_.vertices, a) >= CountBelowZero(mesh_.vertices, a)

\* C8 in the rotated frame, before the bounding-box recentering
C8_MajorityAfterRotation ==
    (/\ last = "standardize_pose"
     /\ ret = "None") =>
        \A a \in 1..3 :
            CountAtLeastZero(pose.rot, a) >= CountBelowZero(pose.rot, a)

Coords(vs, a) == {vs[i][a] : i \in 1..Len(vs)}

\* vs over the denominator u and ws over the denominator w are the same
\* cloud up to a translation
SameUpToShift(vs, u, ws, w) ==
    /\ Len(vs) = Len(ws)
    /\ \A i, j \in 1..Len(vs) : \A a \in 1..3 :
           w * (vs[i][a] - vs[j][a]) = u * (ws[i][a] - ws[j][a])

RankDeficient(vs) ==
    \/ Len(vs) < 3
    \/ Det3(Scatter(center_vertices_avg(
           [vertices |-> vs, unit |-> 1, root |-> 1, triangles |-> <<>>,
            normals |-> NoNormals]).vertices)) = 0

\* C10: on vertices with a rank-deficient covariance standardize_pose fails
\* and writes no rotated vertices.
C10_DegenerateFails ==
    (/\ last = "standardize_pose"
     /\ RankDeficient(pre.vertices)) =>
        /\ Failed(ret)
        /\ ~pose.solved

\* C10 for fewer than three vertices
C10_TooFewFails ==
    (/\ last = "standardize_pose"
     /\ Len(pre.vertices) < 3) =>
        /\ Failed(ret)
        /\ ~pose.solved

ExtentOf(vs, a) == MaxOf(Coords(vs, a)) - MinOf(Coords(vs, a))

Extents(vs) == {ExtentOf(vs, a) : a \in 1..3}

\* the policy of the last rescale_vertices call (Min when none was given)
Policy == IF arg.given THEN arg.type ELSE RescalingTypeMin

\* the reference length of the last rescale_vertices call, as a numerator
\* over pre.unit, for the policies Min, Max and Absolute
ReferenceLength ==
    IF Policy = RescalingTypeMin THEN MinOf(Extents(pre.vertices))
    ELSE IF Policy = RescalingTypeMax THEN MaxOf(Extents(pre.vertices))
    ELSE pre.unit

\* C11: rescale_vertices(S, policy) multiplies every coordinate by
\* S / reference_length, with the smallest extent as reference for Min (the
\* default), the largest for Max and 1 for Absolute (for a reference length
\* that is not 0); after Max the largest extent is S, after Min the
\* smallest is S.
C11_RescaleByReference ==
    (/\ last = "rescale_vertices"
     /\ ret = "None"
     /\ Policy \in {RescalingTypeMin, RescalingTypeMax, RescalingTypeAbsolute}
     /\ pre.unit # 0 /\ pre.root = 1
     /\ ReferenceLength # 0) =>
        /\ mesh_.unit > 0 /\ mesh_.root = 1
        /\ Len(mesh_.vertices) = Len(pre.vertices)
        /\ \A i \in 1..Len(pre.vertices) : \A a \in 1..3 :
               mesh_.vertices[i][a] * ReferenceLength
                   = arg.scale * pre.vertices[i][a] * mesh_.unit
        /\ Policy = RescalingTypeMax =>
               MaxOf(Extents(mesh_.vertices)) = arg.scale * mesh_.unit
        /\ Policy = RescalingTypeMin =>
               MinOf(Extents(mesh_.vertices)) = arg.scale * mesh_.unit

\* rescale_vertices(2, Max) on a mesh with different extents
C11_Witness ==
    /\ last = "rescale_vertices"
    /\ ret = "None"
    /\ arg.given /\ arg.type = RescalingTypeMax /\ arg.scale = 2
    /\ MinOf(Extents(pre.vertices)) # 0
    /\ MinOf(Extents(pre.vertices)) # MaxOf(Extents(pre.vertices))
    /\ MaxOf(Extents(mesh_.vertices)) = 2 * mesh_.unit

\* the middle one of three extents
MedianOf(vs) ==
    CHOOSE x \in Extents(vs) :
        /\ Cardinality({a \in 1..3 : ExtentOf(vs, a) <= x}) >= 2
        /\ Cardinality({a \in 1..3 : ExtentOf(vs, a) >= x}) >= 2

\* C12: rescale_vertices(S, Med) completes, and the median extent of the
\* output is S.
C12_MedianRescale ==
    (/\ last = "rescale_vertices"
     /\ arg.given /\ arg.type = RescalingTypeMed
     /\ pre.unit # 0
     /\ Len(pre.vertices) >= 1
     /\ MedianOf(pre.vertices) # 0) =>
        /\ ret = "None"
        /\ MedianOf(mesh_.vertices) = arg.scale * mesh_.unit

\* the reference length of the last rescale_vertices call is 0
ZeroReference ==
    /\ last = "rescale_vertices"
    /\ Len(pre.vertices) >= 1
    /\ pre.unit # 0
    /\ \/ Policy = RescalingTypeMin /\ MinOf(Extents(pre.vertices)) = 0
       \/ Policy = RescalingTypeMax /\ MaxOf(Extents(pre.vertices)) = 0
       \/ Policy = RescalingTypeDiag /\ MaxOf(Extents(pre.vertices)) = 0

\* C13: with a reference length of 0 rescale_vertices fails and writes no
\* coordinates that are not finite.
C13_ZeroReferenceFails ==
    ZeroReference =>
        /\ ret # "None"
        /\ mesh_.unit # 0

\* C13, second half only: the coordinates stay finite
C13_StaysFinite == ZeroReference => mesh_.unit # 0

\* C14: a run of remove_bad_tris on a mesh that remove_bad_tris has
\* already processed changes nothing.
C14_ValidationIdempotent ==
    (/\ last = "remove_bad_tris"
     /\ ncalls >= 2) =>
        /\ mesh_.triangles = pre.triangles
        /\ mesh_ = pre

\* the first run dropped a triangle and kept one, and a second run followed
C14_Witness ==
    /\ last = "remove_bad_tris"
    /\ ncalls = 2
    /\ Len(hist[1].triangles) > Len(hist[2].triangles)
    /\ Len(mesh_.triangles) >= 1

\* the direction R takes principal axis i to
ImageOfAxis(i) == MatVec(pose.R, pose.comp[i])

\* target_1 = world Z, target_2 = world Y, target_3 = world X
TargetOf(i) == <<IF i = 3 THEN 1 ELSE 0, IF i = 2 THEN 1 ELSE 0, IF i = 1 THEN 1 ELSE 0>>

Negated(v) == <<-v[1], -v[2], -v[3]>>

\* C19: R takes principal axis i to +target_i when same_i > opp_i and to
\* -target_i when same_i < opp_i.
C19_SignFromOwnAxis ==
    (/\ last = "standardize_pose"
     /\ pose.solved) =>
        \A i \in 1..3 :
            /\ pose.same[i] > pose.opp[i] => ImageOfAxis(i) = TargetOf(i)
            /\ pose.same[i] < pose.opp[i] => ImageOfAxis(i) = Negated(TargetOf(i))

\* C19 for the second axis, whose flag the product of line 120 leaves in place
C19_MiddleAxis ==
    (/\ last = "standardize_pose"
     /\ pose.solved) =>
        /\ pose.same[2] > pose.opp[2] => ImageOfAxis(2) = TargetOf(2)
        /\ pose.same[2] < pose.opp[2] => ImageOfAxis(2) = Negated(TargetOf(2))

\* C20 as stated: on a tie same_i = opp_i axis i counts as positively
\* oriented and R takes it to +target_i.
C20_TieIsPositive ==
    (/\ last = "standardize_pose"
     /\ pose.solved) =>
        \A i \in 1..3 :
            pose.same[i] = pose.opp[i] => ImageOfAxis(i) = TargetOf(i)

\* the signed target array of line 120, recovered from R: comp . R^T
SignedTarget == MatMul3(pose.comp, Transpose(pose.R, 3))

\* C20 (amended): on a tie same_i = opp_i axis i counts as not positively
\* oriented (same_i > opp_i is false): column i of the target array is
\* negated, as it is when same_i < opp_i.
C20_TieIsNegative ==
    (/\ last = "standardize_pose"
     /\ pose.solved) =>
        \A i \in 1..3 :
            pose.same[i] = pose.opp[i] =>
                \A k \in 1..3 : SignedTarget[k][i] = -target_array[k][i]

\* a cloud with a tie on one axis and none on another went through
C20_Witness ==
    /\ last = "standardize_pose"
    /\ pose.solved
    /\ \E i \in 1..3 : pose.same[i] = pose.opp[i]
    /\ \E i \in 1..3 : pose.same[i] > pose.opp[i]


(***************************************************************************)
(* Properties of Gce calls, stated on the record of the last call.         *)
(***************************************************************************)
\* the places of the requests of a call that went to the given API method
Sent(api) == {k \in DOMAIN gce.requests : gce.requests[k].api = api}

\* C15: attach_disk with non-empty names for a disk that exists issues
\* exactly one attachDisk request whose source is the disk's selfLink, and
\* returns the response or raises ApiOperationError.
C15_AttachIssuesRequest ==
    (/\ gce.method = "attach_disk"
     /\ ~Falsy(gce.instance_name) /\ ~Falsy(gce.disk_name)
     /\ gce.disk_name.str \in gce.found)
    => /\ Cardinality(Sent("instances.attachDisk")) = 1
       /\ \A k \in Sent("instances.attachDisk") :
              gce.requests[k].source = <<SelfLink(gce.disk_name.str)>>
       /\ gce.raised \in {"", "ApiOperationError", "ApiError"}

\* C15, the second half: attach_disk for a disk that does not exist raises
\* DiskDoesNotExistError and issues no attachDisk request.
C15_MissingDiskFails ==
    (/\ gce.method = "attach_disk"
     /\ ~Falsy(gce.instance_name) /\ ~Falsy(gce.disk_name)
     /\ gce.disk_name.str \notin gce.found)
    => /\ gce.raised = "DiskDoesNotExistError"
       /\ Sent("instances.attachDisk") = {}

BlockingMethods ==
    {"start_instance", "stop_instance", "create_disk", "snapshot_disk",
     "delete_snapshot", "delete_disk"}

\* the places of the polls among the requests of the call
Polls == Sent("zoneOperations.get") \cup Sent("globalOperations.get")

\* a call made with blocking=True that executed its request and then
\* returned or raised for an 'error' in the response
BlockingCompleted ==
    /\ gce.method \in BlockingMethods
    /\ gce.blocking
    /\ gce.requests # <<>>
    /\ gce.raised \in {"", "ApiOperationError"}

\* each poll follows a response that is not DONE, and goes to
\* zoneOperations exactly when that response has a 'zone'
PollsFollowResponse ==
    \A k \in Polls :
        /\ k > 1
        /\ ~gce.replies[k - 1].raises /\ ~gce.replies[k - 1].empty
        /\ gce.replies[k - 1].status # "DONE"
        /\ gce.requests[k].api = "zoneOperations.get" <=> gce.replies[k - 1].zoned

\* 'error' in the response is what raises ApiOperationError
ErrorInspected ==
    /\ gce.response = gce.replies[Len(gce.replies)]
    /\ gce.raised = "ApiOperationError" <=> (~gce.response.empty /\ gce.response.error)

StartInstanceNamed ==
    /\ gce.method = "start_instance"
    /\ ~Falsy(gce.instance_name) /\ ~Falsy(gce.disk_name) /\ ~Falsy(gce.image_name)

\* the places in additional_disks of the disks the API has no resource for
MissingDisks ==
    {k \in DOMAIN gce.additional_disks : gce.additional_disks[k] \notin gce.found}

\* C17: start_instance looks up the entries of additional_disks in order,
\* before the insert request; when one is missing (its lookup raised
\* ApiError, which get_disk turns into None) DiskDoesNotExistError is raised
\* at that entry and no insert request is issued.
C17_DisksCheckedBeforeInsert ==
    StartInstanceNamed
    => LET n == Len(gce.additional_disks)
           lookups == Sent("disks.get")
       IN  /\ \A k \in lookups :
                  /\ k <= n
                  /\ gce.requests[k].target = gce.additional_disks[k]
                  /\ \A j \in 1..k : j \in lookups
           /\ MissingDisks # {}
              => /\ gce.raised = "DiskDoesNotExistError"
                 /\ Sent("instances.insert") = {}
                 /\ lookups = 1..MinOf(MissingDisks)
                 /\ gce.replies[Len(gce.replies)].raises
           /\ \A k \in Sent("instances.insert") :
                  /\ MissingDisks = {}
                  /\ lookups = 1..n
                  /\ k = n + 1
                  /\ gce.requests[k].source
                         = [j \in 1..n |-> SelfLink(gce.additional_disks[j])]

\* the second of two additional disks is missing: two lookups, no insert
C17_Witness ==
    /\ StartInstanceNamed
    /\ gce.additional_disks = <<"d1", "d2">>
    /\ gce.found = {"d1"}
    /\ gce.raised = "DiskDoesNotExistError"
    /\ Len(gce.requests) = 2

\* the names a call requires, as passed to the last call
RequiredNames ==
    CASE gce.method = "start_instance" ->
             {gce.instance_name, gce.disk_name, gce.image_name}
      [] gce.method = "attach_disk" -> {gce.instance_name, gce.disk_name}
      [] gce.method = "stop_instance" -> {gce.instance_name}
      [] gce.method \in {"create_disk", "snapshot_disk", "delete_disk"} -> {gce.disk_name}
      [] gce.method = "delete_snapshot" -> {gce.snapshot_name}
      [] OTHER -> {}

\* C18: a call with a required name that is None or empty raises ValueError
\* and has built and executed no request.
C18_NamesRequired ==
    (\E name \in RequiredNames : name = NoneName \/ name = Name(""))
    => /\ gce.raised = "ValueError"
       /\ gce.requests = <<>>

\* start_instance with an empty image_name and the other names given
C18_Witness ==
    /\ gce.method = "start_instance"
    /\ gce.instance_name = Name("vm")
    /\ gce.disk_name = Name("d1")
    /\ gce.image_name = Name("")
    /\ gce.raised = "ValueError"

(***************************************************************************)
(* The frame of rescale_vertices.                                          *)
(***************************************************************************)
\* the last call was a rescale_vertices that completed
RescaleCompleted == last = "rescale_vertices" /\ ret = "None"

\* ws is vs times one positive factor, vertex by vertex in the same order
SameOrderScaled(vs, ws) ==
    /\ Len(ws) = Len(vs)
    /\ \A i \in 1..Len(vs), a \in 1..3 :
           /\ ws[i][a] * vs[i][a] >= 0
           /\ ws[i][a] = 0 <=> vs[i][a] = 0
           /\ \A k \in 1..Len(vs), b \in 1..3 :
                  ws[i][a] * vs[k][b] = ws[k][b] * vs[i][a]

\* C21: a rescale_vertices that completes, under any policy, leaves the
\* number and the order of the vertices, the triangle list and the normals
\* as they were: only coordinate values change, each vertex by the same
\* positive factor where the result is finite.
C21_OnlyCoordinatesChange ==
    RescaleCompleted
    => /\ Len(mesh_.vertices) = Len(pre.vertices)
       /\ mesh_.triangles = pre.triangles
       /\ mesh_.normals = pre.normals
       /\ (pre.unit # 0 /\ mesh_.unit # 0)
          => SameOrderScaled(pre.vertices, mesh_.vertices)

\* a mesh of several vertices with triangles and normals, whose coordinates
\* a rescale to its largest extent changed
C21_Witness ==
    /\ RescaleCompleted
    /\ Policy = RescalingTypeMax
    /\ Len(pre.vertices) >= 3
    /\ pre.triangles # <<>>
    /\ ~pre.normals.none /\ pre.normals.rows # <<>>
    /\ pre.unit # 0 /\ mesh_.unit # 0
    /\ <<mesh_.vertices, mesh_.unit, mesh_.root>> # <<pre.vertices, pre.unit, pre.root>>


====
